---- MODULE Spec2Model ----
(***************************************************************************)
(* Model of tc_variant: TcVariantAnnotation (tcvariant.py) and the command *)
(* line entry point main (cli.py).                                         *)
(*                                                                         *)
(* A Python str is a sequence of one-character strings.  A JSON value is a *)
(* tagged record: [t |-> "obj", o |-> function from keys to values],       *)
(* [t |-> "arr", a |-> sequence], [t |-> "str", s |-> characters],         *)
(* [t |-> "num", n |-> integer], and the Python None is [t |-> "none"].    *)
(***************************************************************************)
EXTENDS Integers, Sequences, FiniteSets, TLC

VARIABLES
    v_in,       \* validate_variant: the argument
    v_ret,      \* validate_variant: the values returned, <<>> before the call
    p_in,       \* parse_variant_data: the json_data argument
    p_ret,      \* parse_variant_data: the values returned, <<>> before the call
    f_in,       \* get_variant_data: the response requests.get meets
    f_ret,      \* get_variant_data: the values returned, <<>> before the call
    pc,         \* main: "main", "loop" (in annotate_variants_from_file), "exit"; "idle" when main is not run
    opts,       \* main: the parsed arguments, variant and input
    input_file, \* the file opts.input names: whether it can be read, and its lines
    idx,        \* annotate_variants_from_file: the index of the next line of f.readlines()
    data,       \* annotate_variants_from_file: the list of records
    calls,      \* the calls made so far, in order, each with its result
    output,     \* the file self.output names: whether it exists, and its rows
    exit_code   \* the status sys.exit(main()) ends with, <<>> while main runs

vars ==
    << v_in, v_ret, p_in, p_ret, f_in, f_ret, pc, opts, input_file, idx, data,
       calls, output, exit_code >>

mainVars == <<pc, opts, input_file, idx, data, calls, output, exit_code>>

(***************************************************************************)
(* Characters and strings                                                  *)
(***************************************************************************)
Digits == {"0", "1", "2", "3", "4", "5", "6", "7", "8", "9"}

\* The first n characters of s (all of s when it is shorter).
Take(s, n) == SubSeq(s, 1, IF n < Len(s) THEN n ELSE Len(s))

(***************************************************************************)
(* re.match: a pattern is a sequence of elements                           *)
(*   [k |-> "set", chars |-> S, lo |-> m, hi |-> n]   a class, m to n times *)
(*   [k |-> "dot", lo |-> m, hi |-> n]                '.', not a newline    *)
(*   [k |-> "alt", alts |-> set of strings]           (a|b|...)             *)
(***************************************************************************)
Lit(c) == [k |-> "set", chars |-> {c}, lo |-> 1, hi |-> 1]
Cls(S, m, n) == [k |-> "set", chars |-> S, lo |-> m, hi |-> n]
Dot == [k |-> "dot", lo |-> 1, hi |-> 1]
EscapedDot == Lit(".")
Alt(A) == [k |-> "alt", alts |-> A]

\* Whether a one-character element e accepts character c.
Accepts(e, c) ==
    IF e.k = "dot" THEN c # "\n" ELSE c \in e.chars

\* The positions the matcher can stand at after element e matched from position p.
ReStepFrom(e, p, s) ==
    IF e.k = "alt"
    THEN { p + Len(a) :
             a \in { x \in e.alts : /\ p + Len(x) - 1 <= Len(s)
                                    /\ SubSeq(s, p, p + Len(x) - 1) = x } }
    ELSE { p + n :
             n \in { m \in e.lo..e.hi : /\ p + m - 1 <= Len(s)
                                        /\ \A j \in p..(p + m - 1) : Accepts(e, s[j]) } }

\* The positions after element e, started at any position of P.
ReStep(e, P, s) == UNION { ReStepFrom(e, p, s) : p \in P }

RECURSIVE ReEnds(_, _, _)
\* The positions after the first n elements of pat have matched from position 1.
ReEnds(pat, n, s) ==
    IF n = 0 THEN {1} ELSE ReStep(pat[n], ReEnds(pat, n - 1, s), s)

\* re.match(pat, s): a match object (TRUE) when pat matches at the start of s.
re_match(pat, s) == ReEnds(pat, Len(pat), s) # {}

(***************************************************************************)
(* TcVariantAnnotation.validate_variant                                    *)
(***************************************************************************)
\* 'NC_\d{6}.(11|12):g.\d{8,9}(A|C|G|T)>(A|G|T)'
variant_regex_pattern ==
    << Lit("N"), Lit("C"), Lit("_"), Cls(Digits, 6, 6), Dot,
       Alt({<<"1", "1">>, <<"1", "2">>}), Lit(":"), Lit("g"), Dot,
       Cls(Digits, 8, 9), Alt({<<"A">>, <<"C">>, <<"G">>, <<"T">>}), Lit(">"),
       Alt({<<"A">>, <<"G">>, <<"T">>}) >>

\* 0 if the variant is formatted correctly, 1 if not.
validate_variant(variant) ==
    IF re_match(variant_regex_pattern, variant) THEN 0 ELSE 1

(***************************************************************************)
(* JSON values and Python values                                           *)
(***************************************************************************)
None == [t |-> "none"]
JStr(s) == [t |-> "str", s |-> s]
JNum(n) == [t |-> "num", n |-> n]
JArr(a) == [t |-> "arr", a |-> a]
JObj(o) == [t |-> "obj", o |-> o]
EmptyFcn == [x \in {} |-> x]

\* j[k] for a string key k raises unless j is a dict holding k.
HasKey(j, k) == j.t = "obj" /\ k \in DOMAIN j.o

\* bool(j), as "if api_data:" evaluates it.
Truthy(j) ==
    CASE j.t = "none" -> FALSE
      [] j.t = "obj" -> DOMAIN j.o # {}
      [] j.t = "arr" -> j.a # <<>>
      [] j.t = "str" -> j.s # <<>>
      [] j.t = "num" -> j.n # 0
      [] OTHER -> FALSE

\* A Python dict: its keys in insertion order, and the value of each key.
PyDict(keys, val) == [keys |-> keys, val |-> val]
EmptyDict == PyDict(<<>>, EmptyFcn)

Range(s) == { s[i] : i \in 1..Len(s) }

(***************************************************************************)
(* TcVariantAnnotation.parse_variant_data                                  *)
(***************************************************************************)
FieldNames ==
    << "variant", "assembly_name", "seq_region_name", "start", "end",
       "most_severe_consequence", "strand", "gene_symbols" >>

\* The keys json_data[...] reads when the record is built.
ScalarKeys ==
    { "assembly_name", "seq_region_name", "start", "end",
      "most_severe_consequence", "strand" }

\* Iterating tc: a list yields its elements; an empty str or dict yields
\* nothing; a non-empty str or dict yields strings, on which ['gene_symbol']
\* raises; any other value is not iterable.
TcIterable(tc) == tc.t \in {"arr", "str", "obj"}
TcItems(tc) == IF tc.t = "arr" THEN tc.a ELSE <<>>
TcItemsSubscriptable(tc) ==
    CASE tc.t = "arr" -> \A i \in 1..Len(tc.a) : HasKey(tc.a[i], "gene_symbol")
      [] tc.t = "str" -> tc.s = <<>>
      [] tc.t = "obj" -> DOMAIN tc.o = {}
      [] OTHER -> FALSE

RECURSIVE gene_symbol_list_adjacent(_, _)
\* gene_symbol_list comparing each symbol with the previous element only.
gene_symbol_list_adjacent(items, n) ==
    IF n = 0 THEN <<>>
    ELSE LET acc == gene_symbol_list_adjacent(items, n - 1)
             g == items[n].o.gene_symbol
         IN  IF n = 1 \/ g # items[n - 1].o.gene_symbol THEN Append(acc, g) ELSE acc

RECURSIVE gene_symbol_list(_, _)
\* The list after the loop has run over the first n elements of items.
gene_symbol_list(items, n) ==
    IF n = 0 THEN <<>>
    ELSE LET acc == gene_symbol_list(items, n - 1)
             g == items[n].o.gene_symbol
         IN  IF g \notin Range(acc) THEN Append(acc, g) ELSE acc

RECURSIVE str_join(_, _, _)
\* sep.join(list[1..n]); every item is a str.
str_join(sep, list, n) ==
    IF n = 0 THEN <<>>
    ELSE IF n = 1 THEN list[1].s
    ELSE str_join(sep, list, n - 1) \o sep \o list[n].s

\* Whether the try block of parse_variant_data runs without an exception.
ParseRaises(json_data) ==
    \/ ~HasKey(json_data, "transcript_consequences")
    \/ ~TcIterable(json_data.o.transcript_consequences)
    \/ ~TcItemsSubscriptable(json_data.o.transcript_consequences)
    \/ \E k \in ScalarKeys : ~HasKey(json_data, k)
    \/ LET items == TcItems(json_data.o.transcript_consequences)
       IN  \E g \in Range(gene_symbol_list(items, Len(items))) : g.t # "str"

parse_variant_data(variant, json_data) ==
    IF ParseRaises(json_data) THEN EmptyDict
    ELSE LET items == TcItems(json_data.o.transcript_consequences)
             genes == gene_symbol_list(items, Len(items))
         IN  PyDict(FieldNames,
                    [variant |-> JStr(variant),
                     assembly_name |-> json_data.o.assembly_name,
                     seq_region_name |-> json_data.o.seq_region_name,
                     start |-> json_data.o.start,
                     end |-> json_data.o.end,
                     most_severe_consequence |-> json_data.o.most_severe_consequence,
                     strand |-> json_data.o.strand,
                     gene_symbols |-> JStr(str_join(<<",">>, genes, Len(genes)))])

(***************************************************************************)
(* Annotation objects as the endpoint returns them                         *)
(***************************************************************************)
Gene(g) == JObj([gene_symbol |-> JStr(<<g>>), impact |-> JStr(<<"MODIFIER">>)])
BadGene == JObj([gene_symbol |-> JNum(7)])
NoGene == JObj([impact |-> JStr(<<"MODIFIER">>)])

Annotation(asm, tc) ==
    JObj([assembly_name |-> JStr(<<asm>>),
          seq_region_name |-> JStr(<<"6">>),
          start |-> JNum(152387156),
          end |-> JNum(152387156),
          most_severe_consequence |-> JStr(<<"intron_variant">>),
          strand |-> JNum(1),
          transcript_consequences |-> tc])

\* An annotation without its strand.
NoStrand(asm, tc) ==
    JObj([assembly_name |-> JStr(<<asm>>),
          seq_region_name |-> JStr(<<"6">>),
          start |-> JNum(152387156),
          end |-> JNum(152387156),
          most_severe_consequence |-> JStr(<<"intron_variant">>),
          transcript_consequences |-> tc])

SampleVariant ==
    << "N", "C", "_", "0", "0", "0", "0", "0", "6", ".", "1", "2", ":", "g", ".",
       "1", "5", "2", "3", "8", "7", "1", "5", "6", "G", ">", "A" >>

(***************************************************************************)
(* TcVariantAnnotation.get_variant_data                                    *)
(*                                                                         *)
(* What requests.get meets: a transport fault (no response), or a response *)
(* with a status and a body; Unparsable is a body response.json() rejects. *)
(***************************************************************************)
Unparsable == [t |-> "bad"]
TransportFault == [fault |-> TRUE, status |-> 0, body |-> Unparsable]
Response(status, body) == [fault |-> FALSE, status |-> status, body |-> body]

\* response.json()[0]: the first element of a list, the first character of a
\* str; an exception (caught: None is returned) for anything else.
FirstItem(body) ==
    CASE body.t = "arr" /\ body.a # <<>> -> body.a[1]
      [] body.t = "str" /\ body.s # <<>> -> JStr(<<body.s[1]>>)
      [] OTHER -> None

\* get_variant_data without the status check.
get_variant_data_unchecked(variant, resp) ==
    IF resp.fault THEN None ELSE FirstItem(resp.body)

get_variant_data(variant, resp) ==
    IF resp.fault THEN None
    ELSE IF resp.status # 200 /\ ~HasKey(resp.body, "error") THEN None
    ELSE FirstItem(resp.body)

(***************************************************************************)
(* TcVariantAnnotation.write_tsv                                           *)
(*                                                                         *)
(* A file is [exists, rows]; a row is the sequence of its cells.  io is    *)
(* what the file system does: "none" (no fault), "open" (open() raises),   *)
(* "write" (the file is created, writing raises and no row is kept).       *)
(***************************************************************************)
NoFile == [exists |-> FALSE, rows |-> <<>>]
IoOutcomes == {"none", "open", "write"}

HeaderRow(keys) == [i \in 1..Len(keys) |-> JStr(<<keys[i]>>)]

\* DictWriter._dict_to_list: a missing key gives restval, ''.
DictToList(keys, d) ==
    [i \in 1..Len(keys) |->
        IF keys[i] \in DOMAIN d.val THEN d.val[keys[i]] ELSE JStr(<<>>)]

\* DictWriter raises ValueError for a dict with a key outside fieldnames.
HasExtraKey(keys, d) == ~(Range(d.keys) \subseteq Range(keys))

\* The rows writerows writes: those before the first dict it raises on.
RowsWritten(keys, list) ==
    LET bad == { i \in 1..Len(list) : HasExtraKey(keys, list[i]) }
        n == IF bad = {} THEN Len(list)
             ELSE (CHOOSE i \in bad : \A j \in bad : i <= j) - 1
    IN  [i \in 1..n |-> DictToList(keys, list[i])]

\* The file after the call, and the exception the except clause caught.
write_tsv(list, file, io) ==
    IF list = <<>> THEN [file |-> file, raised |-> "IndexError"]
    ELSE IF io = "open" THEN [file |-> file, raised |-> "OSError"]
    ELSE IF io = "write"
    THEN [file |-> [exists |-> TRUE, rows |-> <<>>], raised |-> "OSError"]
    ELSE LET keys == list[1].keys
         IN  [file |-> [exists |-> TRUE,
                        rows |-> <<HeaderRow(keys)>> \o RowsWritten(keys, list)],
              raised |-> IF \E i \in 1..Len(list) : HasExtraKey(keys, list[i])
                         THEN "ValueError" ELSE "none"]

(***************************************************************************)
(* The calls of a run, as the logging.debug line of each method shows them *)
(***************************************************************************)
ValidateEntry(i, variant, ret) ==
    [op |-> "validate", line |-> i, variant |-> variant, ret |-> ret]
FetchEntry(i, resp, ret) ==
    [op |-> "fetch", line |-> i, fault |-> resp.fault, status |-> resp.status,
     ret |-> ret]
ParseEntry(i, arg, ret) == [op |-> "parse", line |-> i, arg |-> arg, ret |-> ret]
WriteEntry(list, raised) == [op |-> "write", data |-> list, raised |-> raised]

(***************************************************************************)
(* str.strip                                                               *)
(***************************************************************************)
Whitespace == {" ", "\n", "\t", "\r"}

RECURSIVE LStrip(_)
LStrip(s) == IF s # <<>> /\ s[1] \in Whitespace THEN LStrip(Tail(s)) ELSE s

RECURSIVE RStrip(_)
RStrip(s) ==
    IF s # <<>> /\ s[Len(s)] \in Whitespace THEN RStrip(SubSeq(s, 1, Len(s) - 1))
    ELSE s

Strip(s) == RStrip(LStrip(s))

(***************************************************************************)
(* TcVariantAnnotation.annotate_variants_from_file, one line of the loop:  *)
(* the calls made for line i, and the records appended to data.  r1 and r2 *)
(* are what the first and the second request meet.                         *)
(***************************************************************************)
\* The loop body fetching once and parsing that result.
annotate_line_fetch_once(i, raw, r1, r2) ==
    LET variant == Strip(raw)
        api_data == get_variant_data(variant, r1)
        rec == parse_variant_data(variant, api_data)
    IN  IF validate_variant(variant) # 0
        THEN [calls |-> <<ValidateEntry(i, variant, 1)>>, recs |-> <<>>]
        ELSE IF Truthy(api_data)
        THEN [calls |-> << ValidateEntry(i, variant, 0), FetchEntry(i, r1, api_data),
                           ParseEntry(i, api_data, rec) >>,
              recs |-> <<rec>>]
        ELSE [calls |-> <<ValidateEntry(i, variant, 0), FetchEntry(i, r1, api_data)>>,
              recs |-> <<>>]

annotate_line(i, raw, r1, r2) ==
    LET variant == Strip(raw)
        api_data == get_variant_data(variant, r1)
        again == get_variant_data(variant, r2)
        rec == parse_variant_data(variant, again)
    IN  IF validate_variant(variant) # 0
        THEN [calls |-> <<ValidateEntry(i, variant, 1)>>, recs |-> <<>>]
        ELSE IF Truthy(api_data)
        THEN [calls |-> << ValidateEntry(i, variant, 0), FetchEntry(i, r1, api_data),
                           FetchEntry(i, r2, again), ParseEntry(i, again, rec) >>,
              recs |-> <<rec>>]
        ELSE [calls |-> <<ValidateEntry(i, variant, 0), FetchEntry(i, r1, api_data)>>,
              recs |-> <<>>]

(***************************************************************************)
(* TcVariantAnnotation.annotate_single_variant: the calls made and the     *)
(* output file afterwards.                                                 *)
(***************************************************************************)
annotate_single_variant(raw, r, file, io) ==
    LET variant == Strip(raw)
        api_data == get_variant_data(variant, r)
        parsed_data == parse_variant_data(variant, api_data)
        w == write_tsv(<<parsed_data>>, file, io)
    IN  IF validate_variant(variant) # 0
        THEN [calls |-> <<ValidateEntry(1, variant, 1)>>, file |-> file]
        ELSE [calls |-> << ValidateEntry(1, variant, 0), FetchEntry(1, r, api_data),
                           ParseEntry(1, api_data, parsed_data),
                           WriteEntry(<<parsed_data>>, w.raised) >>,
              file |-> w.file]

(***************************************************************************)
(* The parts of the state a specification does not exercise                *)
(***************************************************************************)
ValidatorIdle == v_in = <<>> /\ v_ret = <<>>
ParserIdle == p_in = None /\ p_ret = <<>>
FetcherIdle == f_in = TransportFault /\ f_ret = <<>>
MainIdle ==
    /\ pc = "idle"
    /\ opts = [variant |-> None, input |-> None]
    /\ input_file = [readable |-> FALSE, lines |-> <<>>]
    /\ idx = 1
    /\ data = <<>>
    /\ calls = <<>>
    /\ output = NoFile
    /\ exit_code = <<>>

(***************************************************************************)
(* Inputs of the validator: an identifier assembled from its parts, each   *)
(* part drawn from right and wrong alternatives, then trailing characters. *)
(***************************************************************************)
MaxTrail == 2

Bases == {"A", "C", "G", "T"}
Accession == <<"0", "0", "0", "0", "0", "6", "0">>
Position == <<"1", "5", "2", "3", "8", "7", "1", "5", "6", "0">>
Trails == UNION { [1..n -> {"x"}] : n \in 0..MaxTrail }

VariantInputs ==
    { pre \o Take(Accession, n1) \o <<s1>> \o ver \o <<":", "g">> \o <<s2>>
          \o Take(Position, n2) \o <<r>> \o <<gt>> \o <<a>> \o tr :
        pre \in {<<"N", "C", "_">>, <<"N", "G", "_">>},
        n1 \in 5..7,
        s1 \in {".", "X"},
        ver \in {<<"1", "1">>, <<"1", "2">>, <<"1", "3">>},
        s2 \in {".", "X"},
        n2 \in 7..10,
        r \in Bases \cup {"Z"},
        gt \in {">", "-"},
        a \in Bases \cup {"Z"},
        tr \in Trails }


InitV ==
    /\ v_in \in VariantInputs
    /\ v_ret = <<>>
    /\ ParserIdle
    /\ FetcherIdle
    /\ MainIdle

\* A call of validate_variant(v_in).
ValidateCall ==
    /\ v_ret = <<>>
    /\ v_ret' = <<validate_variant(v_in)>>
    /\ UNCHANGED <<v_in, p_in, p_ret, f_in, f_ret, mainVars>>

NextV == ValidateCall

SpecV == InitV /\ [][NextV]_vars

(***************************************************************************)
(* Inputs of the extractor: annotations whose transcript_consequences is   *)
(* any list of up to MaxTc elements, and values of other shapes.           *)
(***************************************************************************)
MaxTc == 4

TcElements == {Gene("BRCA1"), Gene("TP53"), Gene("ESR1"), NoGene, BadGene}
TcLists == UNION { [1..n -> TcElements] : n \in 0..MaxTc }

ParseInputs ==
    { Annotation("GRCh38", JArr(tc)) : tc \in TcLists }
      \cup { NoStrand("GRCh38", JArr(tc)) : tc \in { l \in TcLists : Len(l) <= 1 } }
      \cup { Annotation("GRCh38", x) :
               x \in {JStr(<<>>), JStr(<<"B">>), JObj(EmptyFcn), JNum(3), None} }
      \cup { None, JObj(EmptyFcn), JStr(<<"N">>), JArr(<<>>), JNum(1) }

InitP ==
    /\ p_in \in ParseInputs
    /\ p_ret = <<>>
    /\ ValidatorIdle
    /\ FetcherIdle
    /\ MainIdle

\* A call of parse_variant_data(SampleVariant, p_in).
ParseCall ==
    /\ p_ret = <<>>
    /\ p_ret' = <<parse_variant_data(SampleVariant, p_in)>>
    /\ UNCHANGED <<v_in, v_ret, p_in, f_in, f_ret, mainVars>>

NextP == ParseCall

SpecP == InitP /\ [][NextP]_vars

(***************************************************************************)
(* main (cli.py) and the runs it starts.  The endpoint's answers and the   *)
(* file system's faults are chosen when the request or the write is made.  *)
(***************************************************************************)
MaxLines == 2

VariantB ==
    << "N", "C", "_", "0", "0", "0", "0", "0", "1", ".", "1", "1", ":", "g", ".",
       "1", "2", "3", "4", "5", "6", "7", "8", "T", ">", "G" >>

\* Lines as f.readlines() gives them: a variant, a variant after a blank and
\* before trailing characters, a malformed identifier, a blank line.
Lines ==
    { SampleVariant \o <<"\n">>,
      <<" ">> \o VariantB \o <<"x", "\n">>,
      <<"b", "a", "d", "_", "v", "a", "r", "i", "a", "n", "t", "\n">>,
      <<"\n">> }

InputFiles ==
    { [readable |-> FALSE, lines |-> <<>>] } \cup
    { [readable |-> TRUE, lines |-> l] :
        l \in UNION { [1..n -> Lines] : n \in 0..MaxLines } }

\* --variant values: a variant, one with blanks around it, a malformed one.
VariantArgs ==
    { JStr(SampleVariant), JStr(<<" ">> \o VariantB \o <<" ">>),
      JStr(<<"b", "a", "d", "_", "v", "a", "r", "i", "a", "n", "t">>) }

GenesA == JArr(<<Gene("BRCA1"), Gene("BRCA1"), Gene("TP53")>>)
GenesB == JArr(<<Gene("ESR1")>>)
ErrorBody == JObj([error |-> JStr(<<"No variant found">>)])

\* What a request of a run can meet (a transport fault ends a request as a
\* status 500 does, with None).
Responses ==
    { Response(200, JArr(<<Annotation("GRCh38", GenesA)>>)),
      Response(200, JArr(<<Annotation("GRCh37", GenesB)>>)),
      Response(200, JArr(<<NoStrand("GRCh38", GenesA)>>)),
      Response(200, JArr(<<JObj(EmptyFcn)>>)),
      Response(500, ErrorBody),
      Response(500, JArr(<<Annotation("GRCh38", GenesA)>>)) }

\* What a lone call of get_variant_data can meet: every status with every
\* shape of body.
Statuses == {200, 201, 204, 301, 400, 404, 500, 503}
Bodies ==
    { Unparsable, ErrorBody, JObj([message |-> JStr(<<"busy">>)]), JObj(EmptyFcn),
      JArr(<<Annotation("GRCh38", GenesA)>>), JArr(<<ErrorBody>>), JArr(<<>>),
      JArr(<<JObj(EmptyFcn)>>), JStr(<<"o", "k">>), JStr(<<>>), JNum(5), None }
AllResponses == {TransportFault} \cup { Response(st, b) : st \in Statuses, b \in Bodies }

InitMain ==
    /\ pc = "main"
    /\ \/ /\ opts \in { [variant |-> v, input |-> None] : v \in VariantArgs }
          /\ input_file = [readable |-> FALSE, lines |-> <<>>]
       \/ /\ opts = [variant |-> None, input |-> JStr(<<"variants.txt">>)]
          /\ input_file \in InputFiles
       \/ /\ opts \in { [variant |-> v, input |-> i] :
                          v \in {None, JStr(<<>>)}, i \in {None, JStr(<<>>)} }
          /\ input_file = [readable |-> FALSE, lines |-> <<>>]
    /\ idx = 1
    /\ data = <<>>
    /\ calls = <<>>
    /\ output = NoFile
    /\ exit_code = <<>>
    /\ f_in = TransportFault
    /\ f_ret = <<>>

InitFetch ==
    /\ f_in \in AllResponses
    /\ f_ret = <<>>
    /\ MainIdle

Init ==
    /\ ValidatorIdle
    /\ ParserIdle
    /\ (InitMain \/ InitFetch)

\* A lone call of get_variant_data(SampleVariant) meeting f_in.
FetchCall ==
    /\ pc = "idle"
    /\ f_ret = <<>>
    /\ f_ret' = <<get_variant_data(SampleVariant, f_in)>>
    /\ UNCHANGED <<v_in, v_ret, p_in, p_ret, f_in, mainVars>>

\* main with --variant: annotate_single_variant, then main returns None.
MainSingle ==
    /\ pc = "main"
    /\ Truthy(opts.variant)
    /\ \E r \in Responses, io \in IoOutcomes :
           \E run \in {annotate_single_variant(opts.variant.s, r, output, io)} :
               /\ calls' = calls \o run.calls
               /\ output' = run.file
    /\ exit_code' = <<0>>
    /\ pc' = "exit"
    /\ UNCHANGED <<v_in, v_ret, p_in, p_ret, f_in, f_ret, opts, input_file, idx, data>>

\* main with --input: annotate_variants_from_file opens the file; the
\* exception of a file that cannot be read reaches main, which returns 255.
MainOpenInput ==
    /\ pc = "main"
    /\ ~Truthy(opts.variant)
    /\ Truthy(opts.input)
    /\ IF input_file.readable
       THEN pc' = "loop" /\ exit_code' = exit_code
       ELSE pc' = "exit" /\ exit_code' = <<255>>
    /\ idx' = 1
    /\ data' = <<>>
    /\ UNCHANGED <<v_in, v_ret, p_in, p_ret, f_in, f_ret, opts, input_file, calls, output>>

\* main with neither: the error is logged and main returns None.
MainNoInput ==
    /\ pc = "main"
    /\ ~Truthy(opts.variant)
    /\ ~Truthy(opts.input)
    /\ exit_code' = <<0>>
    /\ pc' = "exit"
    /\ UNCHANGED <<v_in, v_ret, p_in, p_ret, f_in, f_ret, opts, input_file, idx, data,
                   calls, output>>

\* One turn of "for variant in f.readlines()".
BatchLine_prepend ==
    /\ pc = "loop"
    /\ idx <= Len(input_file.lines)
    /\ \E r1 \in Responses, r2 \in Responses :
           \E step \in {annotate_line(idx, input_file.lines[idx], r1, r2)} :
               /\ calls' = calls \o step.calls
               /\ data' = step.recs \o data
    /\ idx' = idx + 1
    /\ UNCHANGED <<v_in, v_ret, p_in, p_ret, f_in, f_ret, pc, opts, input_file, output,
                   exit_code>>

BatchLine ==
    /\ pc = "loop"
    /\ idx <= Len(input_file.lines)
    /\ \E r1 \in Responses, r2 \in Responses :
           \E step \in {annotate_line(idx, input_file.lines[idx], r1, r2)} :
               /\ calls' = calls \o step.calls
               /\ data' = data \o step.recs
    /\ idx' = idx + 1
    /\ UNCHANGED <<v_in, v_ret, p_in, p_ret, f_in, f_ret, pc, opts, input_file, output,
                   exit_code>>

\* After the last line: write_tsv(data, self.output), then main returns None.
BatchWrite ==
    /\ pc = "loop"
    /\ idx > Len(input_file.lines)
    /\ \E io \in IoOutcomes :
           \E w \in {write_tsv(data, output, io)} :
               /\ output' = w.file
               /\ calls' = Append(calls, WriteEntry(data, w.raised))
    /\ exit_code' = <<0>>
    /\ pc' = "exit"
    /\ UNCHANGED <<v_in, v_ret, p_in, p_ret, f_in, f_ret, opts, input_file, idx, data>>

Next ==
    \/ FetchCall
    \/ MainSingle
    \/ MainOpenInput
    \/ MainNoInput
    \/ BatchLine
    \/ BatchWrite

Spec == Init /\ [][Next]_vars

(***************************************************************************)
(* The variant pattern of the data model:                                  *)
(* NC_<6 digits>.(11|12):g.<8-9 digits><base>><base>, base in {A,C,G,T},   *)
(* with literal '.' separators.                                            *)
(***************************************************************************)
VariantPattern ==
    << Lit("N"), Lit("C"), Lit("_"), Cls(Digits, 6, 6), EscapedDot,
       Alt({<<"1", "1">>, <<"1", "2">>}), Lit(":"), Lit("g"), EscapedDot,
       Cls(Digits, 8, 9), Cls(Bases, 1, 1), Lit(">"), Cls(Bases, 1, 1) >>

FullyMatches(pat, s) == (Len(s) + 1) \in ReEnds(pat, Len(pat), s)
SomePrefixMatches(pat, s) == \E n \in 0..Len(s) : FullyMatches(pat, Take(s, n))

\* C1: validate_variant returns 0 for every string that fully matches the
\* variant pattern, whatever the ref base and the alt base in {A,C,G,T}.
C1_FullMatchIsValid ==
    (v_ret # <<>> /\ FullyMatches(VariantPattern, v_in)) => v_ret = <<0>>

\* C9: validate_variant returns 0 only if some prefix of the string matches the
\* variant pattern (literal '.' separators), and 1 when no prefix matches;
\* the characters after a matching prefix do not change the verdict on it.
C9_ValidOnlyIfPrefixMatches ==
    v_ret # <<>> =>
        /\ v_ret = <<0>> => SomePrefixMatches(VariantPattern, v_in)
        /\ ~SomePrefixMatches(VariantPattern, v_in) => v_ret = <<1>>
        /\ \A n \in 0..Len(v_in) :
               FullyMatches(VariantPattern, Take(v_in, n)) =>
                   v_ret = <<validate_variant(Take(v_in, n))>>

(***************************************************************************)
(* Gene symbols                                                            *)
(***************************************************************************)
\* An annotation with every scalar field, whose transcript_consequences is a
\* list of objects that each have a gene_symbol string.
EveryElementHasGeneSymbol(j) ==
    /\ \A k \in ScalarKeys \cup {"transcript_consequences"} : HasKey(j, k)
    /\ j.o.transcript_consequences.t = "arr"
    /\ \A i \in 1..Len(j.o.transcript_consequences.a) :
           LET e == j.o.transcript_consequences.a[i]
           IN  HasKey(e, "gene_symbol") /\ e.o.gene_symbol.t = "str"

SymbolsOf(j) ==
    [i \in 1..Len(j.o.transcript_consequences.a) |->
        j.o.transcript_consequences.a[i].o.gene_symbol.s]

RECURSIVE KeepAt(_, _, _)
\* The elements of s[1..n] at the indices in I, in order.
KeepAt(s, I, n) ==
    IF n = 0 THEN <<>>
    ELSE IF n \in I THEN Append(KeepAt(s, I, n - 1), s[n])
    ELSE KeepAt(s, I, n - 1)

\* Each distinct element of s once, at the place of its first occurrence.
FirstSeen(s) ==
    KeepAt(s, { i \in 1..Len(s) : \A j \in 1..(i - 1) : s[j] # s[i] }, Len(s))

RECURSIVE CommaJoined(_)
CommaJoined(list) ==
    IF list = <<>> THEN <<>>
    ELSE IF Len(list) = 1 THEN list[1]
    ELSE list[1] \o <<",">> \o CommaJoined(Tail(list))

\* C8: when every element of transcript_consequences has a gene_symbol, the
\* record's gene_symbols is the comma-joined list of the distinct symbols,
\* each once, in the order of their first occurrence.
C8_GeneSymbolsFirstSeen ==
    (p_ret # <<>> /\ EveryElementHasGeneSymbol(p_in)) =>
        /\ p_ret[1].keys = FieldNames
        /\ p_ret[1].val.gene_symbols = JStr(CommaJoined(FirstSeen(SymbolsOf(p_in))))

\* [BRCA1, BRCA1, TP53] has been parsed and gave "BRCA1,TP53".
C8_Witness ==
    /\ p_ret # <<>>
    /\ p_in = Annotation("GRCh38", JArr(<<Gene("BRCA1"), Gene("BRCA1"), Gene("TP53")>>))
    /\ p_ret[1].val.gene_symbols = JStr(<<"BRCA1", ",", "TP53">>)

(***************************************************************************)
(* Runs of main                                                            *)
(***************************************************************************)
IsSingle == pc # "idle" /\ Truthy(opts.variant)
IsBatch == pc \in {"loop", "exit"} /\ ~Truthy(opts.variant) /\ input_file.readable
Is2xx(status) == status \in 200..299

CallsOf(op) == { k \in 1..Len(calls) : calls[k].op = op }
LineCalls(op, i) == { k \in CallsOf(op) : calls[k].line = i }
Least(S) == CHOOSE k \in S : \A j \in S : k <= j
Greatest(S) == CHOOSE k \in S : \A j \in S : j <= k

\* The data rows of the output file: its rows after the header.
DataRows(file) == IF file.rows = <<>> THEN <<>> ELSE Tail(file.rows)

IsFullRecord(d) == d.keys = FieldNames /\ DOMAIN d.val = Range(FieldNames)

\* C2: a batch run that collects no record ends without a crash and leaves an
\* output file holding the header row alone.
C2_EmptyBatchWritesHeader ==
    (pc = "exit" /\ IsBatch /\ data = <<>>) =>
        /\ exit_code = <<0>>
        /\ output.exists
        /\ output.rows = <<HeaderRow(FieldNames)>>

\* C3: in single-variant mode the stages after a failed one are not run and no
\* file is written: write_tsv is called, and the file exists, only after
\* validation, fetch and extract have all succeeded.
C3_SingleWritesOnlyAfterSuccess ==
    (pc = "exit" /\ IsSingle) =>
        LET validated == \E k \in CallsOf("validate") : calls[k].ret = 0
            fetched == \E k \in CallsOf("fetch") : calls[k].ret # None
            extracted == \E k \in CallsOf("parse") : IsFullRecord(calls[k].ret)
        IN  /\ CallsOf("fetch") # {} => validated
            /\ CallsOf("parse") # {} => validated /\ fetched
            /\ CallsOf("write") # {} => validated /\ fetched /\ extracted
            /\ output.exists => validated /\ fetched /\ extracted

\* C4: every record handed to write_tsv and every data row written carries all
\* eight fields, and the header is the eight field names: no empty or partly
\* filled row, whatever the fetches and extracts gave, in batch and single mode.
C4_NoPartialRows ==
    /\ \A k \in CallsOf("write") :
           \A i \in 1..Len(calls[k].data) : IsFullRecord(calls[k].data[i])
    /\ \A i \in 1..Len(data) : IsFullRecord(data[i])
    /\ output.rows # <<>> => output.rows[1] = HeaderRow(FieldNames)
    /\ \A r \in 1..Len(DataRows(output)) :
           /\ Len(DataRows(output)[r]) = Len(FieldNames)
           /\ \A c \in 1..Len(DataRows(output)[r]) : DataRows(output)[r][c] # JStr(<<>>)

\* C6: a run in which write_tsv met an I/O fault ends with exit code 255.
C6_WriteFailureIsFatal ==
    (pc = "exit" /\ \E k \in CallsOf("write") : calls[k].raised = "OSError") =>
        exit_code = <<255>>

(***************************************************************************)
(* Batch mode                                                              *)
(***************************************************************************)
\* The lines processed so far for which validate_variant returned 0.
Accepted ==
    { i \in 1..(idx - 1) : \E k \in LineCalls("validate", i) : calls[k].ret = 0 }

\* Those lines, stripped, in input order.
ValidSoFar ==
    KeepAt([i \in 1..Len(input_file.lines) |-> Strip(input_file.lines[i])],
           Accepted, idx - 1)

\* Every fetch returned data and every extract returned a record.
FetchesAndExtractsSucceed ==
    /\ \A k \in CallsOf("fetch") : Truthy(calls[k].ret)
    /\ \A k \in CallsOf("parse") : IsFullRecord(calls[k].ret)

\* C5: in a batch run whose fetches and extracts all succeed, the records are
\* those of the valid lines, one each, in input order, none for an invalid or
\* blank line; write_tsv is called once, as the last call, after every line has
\* been validated; and the file's data rows are those records in that order
\* (when the file system lets them be written).
C5_OneRowPerValidLineInOrder ==
    (IsBatch /\ FetchesAndExtractsSucceed) =>
        /\ \A i \in 1..(idx - 1) : Strip(input_file.lines[i]) = <<>> => i \notin Accepted
        /\ Len(data) = Len(ValidSoFar)
        /\ \A j \in 1..Len(data) :
               IsFullRecord(data[j]) /\ data[j].val.variant = JStr(ValidSoFar[j])
        /\ pc = "loop" => CallsOf("write") = {} /\ output = NoFile
        /\ pc = "exit" =>
               /\ CallsOf("write") = {Len(calls)}
               /\ calls[Len(calls)].data = data
               /\ \A i \in 1..Len(input_file.lines) : LineCalls("validate", i) # {}
               /\ calls[Len(calls)].raised # "OSError" =>
                      /\ Len(DataRows(output)) = Len(ValidSoFar)
                      /\ \A j \in 1..Len(ValidSoFar) :
                             /\ DataRows(output)[j] = DictToList(FieldNames, data[j])
                             /\ DataRows(output)[j][1] = JStr(ValidSoFar[j])

\* A finished batch run over two different valid lines: the header and both
\* rows are in the file.
C5_Witness ==
    /\ pc = "exit"
    /\ IsBatch
    /\ FetchesAndExtractsSucceed
    /\ Len(input_file.lines) = 2
    /\ Len(ValidSoFar) = 2
    /\ ValidSoFar[1] # ValidSoFar[2]
    /\ Len(output.rows) = 3

\* C7: a response whose status is not 2xx never yields data, whatever its body;
\* in batch mode a line whose first fetch ends so is fetched once, is not
\* parsed and adds no record, and the run goes on to validate every later line
\* and to call write_tsv.
C7_Non2xxYieldsNoData ==
    /\ (f_ret # <<>> /\ ~f_in.fault /\ ~Is2xx(f_in.status)) => f_ret = <<None>>
    /\ \A k \in CallsOf("fetch") :
           (~calls[k].fault /\ ~Is2xx(calls[k].status)) => calls[k].ret = None
    /\ IsBatch =>
           /\ Len(data) = Cardinality(CallsOf("parse"))
           /\ \A i \in 1..(idx - 1) :
                  (/\ LineCalls("fetch", i) # {}
                   /\ ~Is2xx(calls[Least(LineCalls("fetch", i))].status)) =>
                      /\ Cardinality(LineCalls("fetch", i)) = 1
                      /\ LineCalls("parse", i) = {}
                      /\ pc = "exit" =>
                             /\ \A j \in (i + 1)..Len(input_file.lines) :
                                    LineCalls("validate", j) # {}
                             /\ CallsOf("write") = {Len(calls)}
                             /\ exit_code = <<0>>

\* A finished batch run of two lines: the first fetch of the first line met a
\* status 500, the second line gave the file's only data row.
C7_Witness ==
    /\ pc = "exit"
    /\ IsBatch
    /\ Len(input_file.lines) = 2
    /\ LineCalls("fetch", 1) # {}
    /\ calls[Least(LineCalls("fetch", 1))].status = 500
    /\ LineCalls("parse", 1) = {}
    /\ LineCalls("parse", 2) # {}
    /\ Len(data) = 1
    /\ Len(output.rows) = 2

\* C10: per line of a batch run, no fetch for a line that fails validation, one
\* for a valid line whose first fetch returns no data, two for a valid line
\* whose first fetch returns data, the record being parsed from the second
\* fetch's result; in single mode one fetch for a valid variant, none otherwise.
C10_FetchesPerLine ==
    /\ IsBatch =>
           \A i \in 1..(idx - 1) :
               LET V == LineCalls("validate", i)
                   F == LineCalls("fetch", i)
                   P == LineCalls("parse", i)
               IN  /\ Cardinality(V) = 1
                   /\ calls[Least(V)].ret # 0 => F = {} /\ P = {}
                   /\ calls[Least(V)].ret = 0 =>
                          /\ F # {}
                          /\ ~Truthy(calls[Least(F)].ret) =>
                                 Cardinality(F) = 1 /\ P = {}
                          /\ Truthy(calls[Least(F)].ret) =>
                                 /\ Cardinality(F) = 2
                                 /\ Cardinality(P) = 1
                                 /\ calls[Least(P)].arg = calls[Greatest(F)].ret
                                 /\ \E j \in 1..Len(data) : data[j] = calls[Least(P)].ret
                                 /\ IsFullRecord(calls[Least(P)].ret) =>
                                        calls[Least(P)].ret.val.assembly_name =
                                            calls[Greatest(F)].ret.o.assembly_name
    /\ (IsSingle /\ pc = "exit") =>
           /\ Cardinality(CallsOf("validate")) = 1
           /\ calls[Least(CallsOf("validate"))].ret = 0 =>
                  Cardinality(CallsOf("fetch")) = 1
           /\ calls[Least(CallsOf("validate"))].ret # 0 => CallsOf("fetch") = {}

\* A batch line was fetched twice with different answers and its record holds
\* the second answer's assembly, not the first's.
C10_Witness ==
    /\ IsBatch
    /\ idx > 1
    /\ Cardinality(LineCalls("fetch", 1)) = 2
    /\ calls[Least(LineCalls("fetch", 1))].ret = Annotation("GRCh38", GenesA)
    /\ calls[Greatest(LineCalls("fetch", 1))].ret = Annotation("GRCh37", GenesB)
    /\ Len(data) = 1
    /\ data[1].val.assembly_name = JStr(<<"GRCh37">>)

====
